---- MODULE Spec2Model ----
(***************************************************************************)
(* Model of src/app.py: the invoice text -> line-item records -> HS code   *)
(* mapping pipeline.  Strings are sequences of one-character strings, so   *)
(* that split, strip, lower and substring tests are computed as Python     *)
(* computes them.  Column labels of the records table are atoms.           *)
(***************************************************************************)
EXTENDS Integers, Sequences, FiniteSets, TLC

VARIABLES pc, raw_text, hs_file, invoice_df, hs_df,
          desc_col, hs_col, unit_col,
          hs_codes, hs_descs, hs_units, clean_desc, match, error

vars == <<pc, raw_text, hs_file, invoice_df, hs_df, desc_col, hs_col, unit_col,
          hs_codes, hs_descs, hs_units, clean_desc, match, error>>

(***************************** bounds **************************************)
\* longest uploaded text, in raw lines drawn from LinePool
MaxLines == 3
\* longest single line built from TokenPool
MaxTokens == 3
\* widest reference table, in header cells
MaxHeaders == 4
\* most data rows of a reference table
MaxRows == 2

(************************* Python str primitives ***************************)
Upper == <<"A","B","C","D","E","F","G","H","I","J","K","L","M",
           "N","O","P","Q","R","S","T","U","V","W","X","Y","Z">>
LowerOf == <<"a","b","c","d","e","f","g","h","i","j","k","l","m",
             "n","o","p","q","r","s","t","u","v","w","x","y","z">>

LowerTable ==
    [c \in {Upper[i] : i \in 1..Len(Upper)} |->
        LowerOf[CHOOSE i \in 1..Len(Upper) : Upper[i] = c]]

\* str.lower() on one character
LowerChar(c) == IF c \in DOMAIN LowerTable THEN LowerTable[c] ELSE c

\* str.lower()
Lower(s) == [i \in 1..Len(s) |-> LowerChar(s[i])]

\* c.isdigit()
IsDigit(c) == c \in {"0","1","2","3","4","5","6","7","8","9"}

\* c.isspace(), for the whitespace str.strip() removes
IsSpace(c) == c \in {" ", "\t", "\r", "\n"}

\* sub in s
Contains(s, sub) ==
    \E i \in 1..(Len(s) - Len(sub) + 1) : SubSeq(s, i, i + Len(sub) - 1) = sub

\* str.strip()
Strip(s) ==
    LET keep == {i \in 1..Len(s) : ~IsSpace(s[i])}
    IN  IF keep = {} THEN <<>>
        ELSE LET a == CHOOSE i \in keep : \A j \in keep : i <= j
                 b == CHOOSE i \in keep : \A j \in keep : j <= i
             IN  SubSeq(s, a, b)

\* str.split("\n")
RECURSIVE Split(_)
Split(s) ==
    LET nl == {i \in 1..Len(s) : s[i] = "\n"}
    IN  IF nl = {} THEN <<s>>
        ELSE LET i == CHOOSE k \in nl : \A j \in nl : k <= j
             IN  <<SubSeq(s, 1, i - 1)>> \o Split(SubSeq(s, i + 1, Len(s)))

\* None; never equal to a string, which holds one character per cell
None == <<"None">>

(****************************** parse_invoice_text *************************)
header_keywords ==
    << <<"i","n","v","o","i","c","e">>, <<"t","a","x">>,
       <<"b","i","l","l"," ","t","o">>, <<"s","h","i","p"," ","t","o">>,
       <<"d","a","t","e">>, <<"t","o","t","a","l">>,
       <<"s","u","b","t","o","t","a","l">>,
       <<"a","m","o","u","n","t"," ","i","n"," ","w","o","r","d","s">>,
       <<"b","a","n","k">> >>

qty_keywords == << <<"q","t","y">>, <<"q","u","a","n","t","i","t","y">> >>

ItemColumns == <<"Full Description", "Brand", "Model", "Size", "Qty",
                 "Packing", "Origin", "Total Price">>

Range(f) == {f[i] : i \in DOMAIN f}

\* mutant: the lines are kept untrimmed
NormalizedLinesRaw(text) ==
    SelectSeq(Split(text), LAMBDA l : Strip(l) # <<>>)

\* lines = [l.strip() for l in text.split("\n") if l.strip()]
NormalizedLines(text) ==
    LET raw == Split(text)
        F[i \in 0..Len(raw)] ==
            IF i = 0 THEN <<>>
            ELSE IF Strip(raw[i]) # <<>> THEN Append(F[i-1], Strip(raw[i]))
                 ELSE F[i-1]
    IN  F[Len(raw)]

\* any(h in low for h in header_keywords)
IsHeaderLine(line) ==
    LET low == Lower(line)
    IN  \E k \in 1..Len(header_keywords) : Contains(low, header_keywords[k])

\* mutant: only a digit makes an item line
IsItemLineDigitsOnly(line) == \E i \in 1..Len(line) : IsDigit(line[i])

\* any(k in low for k in ["qty", "quantity"]) or any(c.isdigit() for c in line)
IsItemLine(line) ==
    LET low == Lower(line)
    IN  \/ \E k \in 1..Len(qty_keywords) : Contains(low, qty_keywords[k])
        \/ \E i \in 1..Len(line) : IsDigit(line[i])

\* the dict appended to rows
NewRow(line) ==
    [c \in Range(ItemColumns) |-> IF c = "Full Description" THEN line ELSE <<>>]

\* mutant: the item check comes first and short-circuits
KeepLineItemFirst(line) == IF IsItemLine(line) THEN TRUE ELSE FALSE

\* the body of the for loop over lines: header check first, then item check
KeepLine(line) == IF IsHeaderLine(line) THEN FALSE ELSE IsItemLine(line)

ParseRows(lines) ==
    LET F[i \in 0..Len(lines)] ==
            IF i = 0 THEN <<>>
            ELSE IF KeepLine(lines[i]) THEN Append(F[i-1], NewRow(lines[i]))
                 ELSE F[i-1]
    IN  F[Len(lines)]

\* pd.DataFrame(rows): a list of dicts gives the dicts' keys as columns, and an
\* empty list gives a frame with no columns at all
DataFrame(rows) ==
    [columns |-> IF rows = <<>> THEN <<>> ELSE ItemColumns, rows |-> rows]

parse_invoice_text(text) == DataFrame(ParseRows(NormalizedLines(text)))

(******************************** map_hs_codes *****************************)
\* hs_df.columns = [c.strip().lower() for c in hs_df.columns]
NormalizeColumns(cols) == [i \in 1..Len(cols) |-> Lower(Strip(cols[i]))]

\* mutant: the scan stops at the first matching header
DetectColumnFirst(cols, sub) ==
    LET hit == {i \in 1..Len(cols) : Contains(cols[i], sub)}
    IN  IF hit = {} THEN None
        ELSE cols[CHOOSE i \in hit : \A j \in hit : i <= j]

\* for col in hs_df.columns: if sub in col: found = col     (no break)
DetectColumn(cols, sub) ==
    LET F[i \in 0..Len(cols)] ==
            IF i = 0 THEN None
            ELSE IF Contains(cols[i], sub) THEN cols[i] ELSE F[i-1]
    IN  F[Len(cols)]

\* mutant: the error needs both columns missing
MissingColumnsBoth(d, h) == d = None /\ h = None

\* if not desc_col or not hs_col: raise ValueError(...)
MissingColumns(d, h) == d = None \/ h = None

\* select_cols = [desc_col, hs_col] (+ [unit_col] if unit_col)
SelectCols(d, h, u) == IF u # None THEN <<d, h, u>> ELSE <<d, h>>

\* hs_df[select_cols].columns: every column carrying a selected label, once per
\* selection, so a label selected twice appears twice
HsMapColumns(cols, sel) ==
    LET F[i \in 0..Len(sel)] ==
            IF i = 0 THEN <<>>
            ELSE F[i-1] \o SelectSeq(cols, LAMBDA c : c = sel[i])
    IN  F[Len(sel)]

\* hs_map[label] is a Series only when exactly one column carries the label;
\* otherwise it is a DataFrame, which has no .str accessor
IsSeries(mapcols, label) ==
    Cardinality({i \in 1..Len(mapcols) : mapcols[i] = label}) = 1

DigitChars == <<"1","2","3","4","5","6","7","8","9">>

\* the cell of data row r (1-based here, 0-based in pandas) under label col
Cell(col, r) == col \o <<"#", DigitChars[r]>>

keywords ==
    << <<"e","l","b","o","w">>, <<"t","e","e">>,
       <<"c","o","u","p","l","i","n","g">>, <<"a","d","a","p","t","e","r">>,
       <<"u","n","i","o","n">>, <<"p","i","p","e">>, <<"p","v","c">>,
       <<"f","i","t","t","i","n","g">>, <<"v","a","l","v","e">> >>

\* mutant: the loop over keywords stops after the first append
RECURSIVE AugmentFromBreak(_, _)
AugmentFromBreak(clean, i) ==
    IF i > Len(keywords) THEN clean
    ELSE IF Contains(clean, keywords[i])
         THEN clean \o <<" ">> \o keywords[i]
         ELSE AugmentFromBreak(clean, i + 1)

\* for k in keywords[i..]: if k in clean_desc: clean_desc += f" {k}"
RECURSIVE AugmentFrom(_, _)
AugmentFrom(clean, i) ==
    IF i > Len(keywords) THEN clean
    ELSE AugmentFrom(IF Contains(clean, keywords[i])
                     THEN clean \o <<" ">> \o keywords[i]
                     ELSE clean,
                     i + 1)

\* clean_desc = desc.lower(), then the loop over keywords
Augment(desc) == AugmentFrom(Lower(desc), 1)

\* the confidence floor of "match[1] > 70"
Threshold == 70

\* results fuzz.token_set_ratio can give, around the floor
Scores == {0, Threshold, Threshold + 1, 100}

NoMatch == [found |-> FALSE, score |-> 0, index |-> 0]

\* mutant: a later choice with an equal score replaces the earlier one
ExtractOneLast(sc) ==
    LET F[i \in 0..Len(sc)] ==
            IF i = 0 THEN NoMatch
            ELSE LET best == F[i-1]
                 IN  IF ~best.found \/ sc[i] >= best.score
                     THEN [found |-> TRUE, score |-> sc[i], index |-> i]
                     ELSE best
    IN  F[Len(sc)]

\* process.extractOne(query, choices, scorer=...): None on no choices, else the
\* first choice holding the highest score; sc[j] is the scorer's result on row j
ExtractOne(sc) ==
    LET F[i \in 0..Len(sc)] ==
            IF i = 0 THEN NoMatch
            ELSE LET best == F[i-1]
                 IN  IF ~best.found \/ sc[i] > best.score
                     THEN [found |-> TRUE, score |-> sc[i], index |-> i]
                     ELSE best
    IN  F[Len(sc)]

\* mutant: the floor is inclusive
AcceptInclusive(m) == m.found /\ m.score >= Threshold

\* if match and match[1] > 70
Accept(m) == m.found /\ m.score > Threshold

NotFound == <<"N","O","T"," ","F","O","U","N","D">>

ResultColumns == <<"HS Code", "HS Description", "Unit">>

\* invoice_df["HS Code"] = hs_codes; ["HS Description"] = hs_descs; ["Unit"] = hs_units
AssignColumns(df, codes, descs, units) ==
    [columns |-> df.columns \o ResultColumns,
     rows    |-> [i \in 1..Len(df.rows) |->
                    [c \in Range(ItemColumns) \cup Range(ResultColumns) |->
                        IF c = "HS Code" THEN codes[i]
                        ELSE IF c = "HS Description" THEN descs[i]
                        ELSE IF c = "Unit" THEN units[i]
                        ELSE df.rows[i][c]]]]

(********************************* inputs **********************************)
SeqsUpTo(S, n) == UNION {[1..k -> S] : k \in 0..n}

RECURSIVE Join(_, _)
Join(ss, sep) ==
    IF ss = <<>> THEN <<>>
    ELSE IF Len(ss) = 1 THEN ss[1]
    ELSE ss[1] \o sep \o Join(Tail(ss), sep)

\* raw lines an extraction backend may hand over
LinePool ==
    { <<>>,
      <<" ", "\t">>,
      <<" ","P","V","C"," ","E","l","b","o","w"," ","2"," ">>,
      <<"T","A","X"," ","5">>,
      <<"T","h","a","n","k","s">>,
      <<"T","e","e"," ","Q","t","y">>,
      <<"S","h","i","p"," ","T","o"," ","3">> }

TokenPool ==
    { <<"9">>, <<" ">>, <<"P","V","C">>, <<"E","l","b","o","w">>,
      <<"p","i","p">>, <<"e">>, <<"s","t","e","e","l">>, <<"t","a","x">> }

\* header cells of a reference table.  Their normalised labels differ pairwise,
\* one carries both "desc" and "hs", and none carries "unit" beside "desc" or
\* "hs", so the only label map_hs_codes can select twice is desc_col = hs_col
HeaderPool ==
    { <<"D","e","s","c","r","i","p","t","i","o","n">>,
      <<" ","H","S","_","C","o","d","e"," ">>,
      <<"U","n","i","t"," ","(","p","c","s",")">>,
      <<"I","t","e","m"," ","N","a","m","e">>,
      <<"H","S"," ","D","e","s","c">>,
      <<"U","N","I","T">> }

\* texts of up to MaxLines pool lines
Texts == {Join(ls, <<"\n">>) : ls \in SeqsUpTo(LinePool, MaxLines)}

\* one-line texts spelled from up to MaxTokens tokens
TokenTexts == {Join(ts, <<>>) : ts \in SeqsUpTo(TokenPool, MaxTokens)}

\* texts giving zero, one and two records
BaseTexts ==
    { <<>>,
      <<" ","P","V","C"," ","E","l","b","o","w"," ","2"," ">>,
      <<" ","P","V","C"," ","E","l","b","o","w"," ","2"," ","\n",
        "T","e","e"," ","Q","t","y">> }

Injective(f) == \A i, j \in DOMAIN f : f[i] = f[j] => i = j

\* header rows as pd.read_excel gives them: no label twice
HeaderRows == {h \in SeqsUpTo(HeaderPool, MaxHeaders) : Injective(h)}

BaseHeaders ==
    << <<"D","e","s","c","r","i","p","t","i","o","n">>,
       <<" ","H","S","_","C","o","d","e"," ">>,
       <<"U","n","i","t"," ","(","p","c","s",")">> >>

SmallHeaders ==
    << <<"D","e","s","c","r","i","p","t","i","o","n">>,
       <<" ","H","S","_","C","o","d","e"," ">> >>

SmallCatalog == [columns |-> SmallHeaders, nrows |-> 1]

\* reference tables: any header row over one data row, and the two plain
\* header rows over zero to MaxRows data rows
Catalogs ==
    {[columns |-> h, nrows |-> 1] : h \in HeaderRows}
        \cup {[columns |-> h, nrows |-> n] :
                h \in {BaseHeaders, SmallHeaders}, n \in 0..MaxRows}

Inputs ==
    (Texts \X {SmallCatalog}) \cup (BaseTexts \X Catalogs)
        \cup (TokenTexts \X {SmallCatalog})

EmptyFrame == [columns |-> <<>>, rows |-> <<>>]
EmptyTable == [columns |-> <<>>, nrows |-> 0]

(***************************** the pipeline ********************************)
\* lines 142-149: both files uploaded, text extracted from the invoice
Init ==
    /\ \E in \in Inputs : raw_text = in[1] /\ hs_file = in[2]
    /\ pc = "start"
    /\ invoice_df = EmptyFrame
    /\ hs_df = EmptyTable
    /\ desc_col = None /\ hs_col = None /\ unit_col = None
    /\ hs_codes = <<>> /\ hs_descs = <<>> /\ hs_units = <<>>
    /\ clean_desc = <<>>
    /\ match = [found |-> FALSE, score |-> 0, index |-> 0, scores |-> <<>>]
    /\ error = "none"

\* line 154: invoice_df = parse_invoice_text(raw_text)
ParseInvoiceText ==
    /\ pc = "start"
    /\ invoice_df' = parse_invoice_text(raw_text)
    /\ pc' = "parsed"
    /\ UNCHANGED <<raw_text, hs_file, hs_df, desc_col, hs_col, unit_col,
                   hs_codes, hs_descs, hs_units, clean_desc, match, error>>

\* line 156: hs_df = pd.read_excel(hs_file)
ReadExcel ==
    /\ pc = "parsed"
    /\ hs_df' = hs_file
    /\ pc' = "map"
    /\ UNCHANGED <<raw_text, hs_file, invoice_df, desc_col, hs_col, unit_col,
                   hs_codes, hs_descs, hs_units, clean_desc, match, error>>

\* map_hs_codes, lines 79-104: normalise the headers, detect the columns
MapDetectColumns ==
    /\ pc = "map"
    /\ LET cols == NormalizeColumns(hs_df.columns)
           d == DetectColumn(cols, <<"d","e","s","c">>)
           h == DetectColumn(cols, <<"h","s">>)
       IN  /\ hs_df' = [hs_df EXCEPT !.columns = cols]
           /\ desc_col' = d
           /\ hs_col' = h
           /\ IF MissingColumns(d, h)
              THEN /\ error' = "ValueError"
                   /\ pc' = "error"
                   /\ unit_col' = unit_col
              ELSE /\ unit_col' = DetectColumn(cols, <<"u","n","i","t">>)
                   /\ pc' = "iter"
                   /\ error' = error
    /\ UNCHANGED <<raw_text, hs_file, invoice_df,
                   hs_codes, hs_descs, hs_units, clean_desc, match>>

\* lines 106-110: the result lists, then invoice_df["Full Description"]
MapIterStart ==
    /\ pc = "iter"
    /\ IF "Full Description" \in Range(invoice_df.columns)
       THEN pc' = "loop" /\ error' = error
       ELSE pc' = "error" /\ error' = "KeyError"
    /\ UNCHANGED <<raw_text, hs_file, invoice_df, hs_df, desc_col, hs_col,
                   unit_col, hs_codes, hs_descs, hs_units, clean_desc, match>>

\* lines 110-134: one iteration of the loop over the descriptions.  sc holds
\* what the scorer returns for the query against each catalog row; match keeps
\* it beside the tuple extractOne returns
MapItem ==
    /\ pc = "loop"
    /\ Len(hs_codes) < Len(invoice_df.rows)
    /\ LET desc == invoice_df.rows[Len(hs_codes) + 1]["Full Description"]
           mapcols == HsMapColumns(hs_df.columns,
                                   SelectCols(desc_col, hs_col, unit_col))
       IN  /\ clean_desc' = Augment(desc)
           /\ IF ~IsSeries(mapcols, desc_col)
              THEN /\ pc' = "error"
                   /\ error' = "AttributeError"
                   /\ UNCHANGED <<hs_codes, hs_descs, hs_units, match>>
              ELSE \E sc \in [1..hs_df.nrows -> Scores] :
                     LET m == ExtractOne(sc)
                     IN  /\ match' = [found |-> m.found, score |-> m.score,
                                      index |-> m.index, scores |-> sc]
                         /\ IF Accept(m)
                            THEN /\ hs_codes' = Append(hs_codes, Cell(hs_col, m.index))
                                 /\ hs_descs' = Append(hs_descs, Cell(desc_col, m.index))
                                 /\ hs_units' = Append(hs_units,
                                        IF unit_col # None
                                        THEN Cell(unit_col, m.index) ELSE <<>>)
                            ELSE /\ hs_codes' = Append(hs_codes, NotFound)
                                 /\ hs_descs' = Append(hs_descs, NotFound)
                                 /\ hs_units' = Append(hs_units, <<>>)
                         /\ pc' = pc
                         /\ error' = error
    /\ UNCHANGED <<raw_text, hs_file, invoice_df, hs_df, desc_col, hs_col, unit_col>>

\* lines 136-139: the three result columns are added and the frame returned
MapAssign ==
    /\ pc = "loop"
    /\ Len(hs_codes) = Len(invoice_df.rows)
    /\ invoice_df' = AssignColumns(invoice_df, hs_codes, hs_descs, hs_units)
    /\ pc' = "done"
    /\ UNCHANGED <<raw_text, hs_file, hs_df, desc_col, hs_col, unit_col,
                   hs_codes, hs_descs, hs_units, clean_desc, match, error>>

Next ==
    \/ ParseInvoiceText
    \/ ReadExcel
    \/ MapDetectColumns
    \/ MapIterStart
    \/ MapItem
    \/ MapAssign

Spec == Init /\ [][Next]_vars

(************************** vocabulary of the properties *******************)
\* the trimmed, non-empty lines of a text, in order
TrimmedLines(text) ==
    LET raw == Split(text)
    IN  SelectSeq([i \in 1..Len(raw) |-> Strip(raw[i])], LAMBDA l : l # <<>>)

HasHeaderKeyword(line) ==
    LET low == Lower(line)
    IN  \E h \in Range(header_keywords) : Contains(low, h)

HasDigit(line) == \E i \in 1..Len(line) : IsDigit(line[i])

HasQty(line) ==
    LET low == Lower(line)
    IN  \/ Contains(low, <<"q","t","y">>)
        \/ Contains(low, <<"q","u","a","n","t","i","t","y">>)

Qualifies(line) == ~HasHeaderKeyword(line) /\ (HasQty(line) \/ HasDigit(line))

\* the Full Description column of the records table
FullDescriptions ==
    [i \in 1..Len(invoice_df.rows) |-> invoice_df.rows[i]["Full Description"]]

\* the uploaded table's headers, trimmed and lowercased
FileHeaders ==
    [i \in 1..Len(hs_file.columns) |-> Lower(Strip(hs_file.columns[i]))]

\* the positions of the headers that contain sub
Matching(sub) ==
    LET hd == FileHeaders
    IN  {i \in 1..Len(hd) : Contains(hd[i], sub)}

FirstMatching(sub) ==
    LET hd == FileHeaders
        m == Matching(sub)
    IN  IF m = {} THEN None ELSE hd[CHOOSE i \in m : \A j \in m : i <= j]

LastMatching(sub) ==
    LET hd == FileHeaders
        m == Matching(sub)
    IN  IF m = {} THEN None ELSE hd[CHOOSE i \in m : \A j \in m : j <= i]

DescSub == <<"d","e","s","c">>
HsSub == <<"h","s">>
UnitSub == <<"u","n","i","t">>

WellFormedCatalog == Matching(DescSub) # {} /\ Matching(HsSub) # {}

\* map_hs_codes has been entered and the column detection is over
DetectionOver == pc \in {"iter", "loop", "done", "error"}

\* the three columns were all resolved (no ValueError)
Resolved == DetectionOver /\ error # "ValueError"

\* the record whose description was augmented last
LastItem == IF error = "AttributeError" THEN 1 ELSE Len(hs_codes)

\* the scores of the last matched record are in match.scores
Matched == Len(hs_codes) >= 1

BestScore ==
    CHOOSE b \in Range(match.scores) : \A x \in Range(match.scores) : x <= b

RECURSIVE Suffix(_, _)
\* the keyword tokens the description d triggers, from keyword i on
Suffix(d, i) ==
    IF i > Len(keywords) THEN <<>>
    ELSE (IF Contains(d, keywords[i]) THEN <<" ">> \o keywords[i] ELSE <<>>)
            \o Suffix(d, i + 1)

(********************************** C1 *************************************)
\* C1: a line that contains a header keyword is never a record's full
\* description, whatever digits or qty/quantity it also contains.
C1_HeaderLinesSkipped ==
    \A i \in 1..Len(invoice_df.rows) :
        ~HasHeaderKeyword(invoice_df.rows[i]["Full Description"])

\* a text with a header line that also holds a digit, parsed beside a kept line
C1_Witness ==
    /\ pc = "parsed"
    /\ Len(invoice_df.rows) >= 1
    /\ \E l \in Range(TrimmedLines(raw_text)) : HasHeaderKeyword(l) /\ HasDigit(l)

(********************************** C2 *************************************)
\* C2 as stated: each of desc_col, hs_col and unit_col is the FIRST header, left
\* to right, that contains its substring.
C2_FirstMatchWins ==
    Resolved => /\ desc_col = FirstMatching(DescSub)
                /\ hs_col = FirstMatching(HsSub)
                /\ unit_col = FirstMatching(UnitSub)

\* C2 amended: each of desc_col, hs_col and unit_col is the LAST header, left to
\* right, that contains its substring (None for unit_col when there is none).
C2_LastMatchWins ==
    Resolved => /\ desc_col = LastMatching(DescSub)
                /\ hs_col = LastMatching(HsSub)
                /\ unit_col = LastMatching(UnitSub)

\* a table with two hs headers and two unit headers has been resolved
C2_Witness ==
    /\ Resolved
    /\ FirstMatching(HsSub) # LastMatching(HsSub)
    /\ FirstMatching(UnitSub) # LastMatching(UnitSub)
    /\ hs_col = LastMatching(HsSub)
    /\ unit_col = LastMatching(UnitSub)

(********************************** C3 *************************************)
\* C3: a text that yields zero records, run against a well-formed catalog,
\* raises no error and ends with an output table of zero rows.
C3_ZeroRecordsComplete ==
    (pc # "start" /\ invoice_df.rows = <<>> /\ WellFormedCatalog)
        => /\ error = "none"
           /\ pc # "error"

(********************************** C4 *************************************)
\* C4: a record whose best score is 70 or less gets "NOT FOUND", "NOT FOUND"
\* and "", and a record whose best score is 71 or more gets a catalog row.
C4_StrictThreshold ==
    (Matched /\ hs_df.nrows >= 1) =>
        LET n == Len(hs_codes)
        IN  /\ BestScore <= Threshold =>
                /\ hs_codes[n] = NotFound
                /\ hs_descs[n] = NotFound
                /\ hs_units[n] = <<>>
            /\ BestScore >= Threshold + 1 =>
                \E r \in 1..hs_df.nrows :
                    /\ hs_codes[n] = Cell(hs_col, r)
                    /\ hs_descs[n] = Cell(desc_col, r)

\* a first record matched, then a record whose best score is exactly the floor
C4_Witness ==
    /\ Len(hs_codes) = 2
    /\ hs_codes[1] # NotFound
    /\ BestScore = Threshold
    /\ hs_codes[2] = NotFound

(********************************** C5 *************************************)
\* C5: when no header contains "desc" or none contains "hs", map_hs_codes ends
\* in the ValueError before any record is matched, and the records table is
\* still the one the parser returned.
C5_MalformedCatalogAborts ==
    (DetectionOver /\ ~WellFormedCatalog) =>
        /\ pc = "error"
        /\ error = "ValueError"
        /\ hs_codes = <<>> /\ hs_descs = <<>> /\ hs_units = <<>>
        /\ clean_desc = <<>>
        /\ match.scores = <<>>
        /\ invoice_df = parse_invoice_text(raw_text)
        /\ Range(invoice_df.columns) \cap Range(ResultColumns) = {}

\* records were parsed and the table has a desc header but no hs header
C5_Witness ==
    /\ error = "ValueError"
    /\ Len(invoice_df.rows) >= 1
    /\ Matching(DescSub) # {}
    /\ Matching(HsSub) = {}

(********************************** C6 *************************************)
\* C6: the records are, in order, exactly the trimmed non-empty lines that hold
\* no header keyword and hold qty, quantity or a digit; every other field of a
\* record is empty.
C6_RecordsAreQualifyingLines ==
    pc # "start" =>
        /\ FullDescriptions = SelectSeq(TrimmedLines(raw_text), Qualifies)
        /\ \A i \in 1..Len(invoice_df.rows) :
              \A c \in Range(ItemColumns) \ {"Full Description"} :
                  invoice_df.rows[i][c] = <<>>

\* two records around a line that has no digit, no qty and no header keyword
C6_Witness ==
    /\ pc = "parsed"
    /\ Len(invoice_df.rows) = 2
    /\ Len(TrimmedLines(raw_text)) = 3
    /\ ~Qualifies(TrimmedLines(raw_text)[2])
    /\ ~HasHeaderKeyword(TrimmedLines(raw_text)[2])
    /\ FullDescriptions[1] # FullDescriptions[2]

(********************************** C7 *************************************)
\* C7: at every stage every record's full description is non-empty, starts and
\* ends with a non-space character and is one of the trimmed input lines.
C7_DescriptionIsAnInputLine ==
    LET lines == Range(TrimmedLines(raw_text))
    IN  \A i \in 1..Len(invoice_df.rows) :
            LET d == invoice_df.rows[i]["Full Description"]
            IN  /\ d # <<>>
                /\ ~IsSpace(d[1])
                /\ ~IsSpace(d[Len(d)])
                /\ d \in lines

\* the HS columns were added to a record that came from a padded line
C7_Witness ==
    /\ pc = "done"
    /\ Len(invoice_df.rows) >= 1
    /\ IsSpace(raw_text[1])
    /\ IsSpace(raw_text[Len(raw_text)])

(********************************** C8 *************************************)
\* C8: against a well-formed catalog map_hs_codes never fails, and it returns
\* one row per record, in order, with the parser's fields unchanged and the
\* three match fields filled from one catalog row or with "NOT FOUND",
\* "NOT FOUND" and "".
C8_TotalOnWellFormedCatalog ==
    (DetectionOver /\ WellFormedCatalog) =>
        /\ error = "none"
        /\ pc # "error"
        /\ pc = "done" =>
            LET before == parse_invoice_text(raw_text).rows
            IN  /\ Len(invoice_df.rows) = Len(before)
                /\ \A i \in 1..Len(before) :
                    /\ \A c \in Range(ItemColumns) :
                          invoice_df.rows[i][c] = before[i][c]
                    /\ \/ /\ invoice_df.rows[i]["HS Code"] = NotFound
                          /\ invoice_df.rows[i]["HS Description"] = NotFound
                          /\ invoice_df.rows[i]["Unit"] = <<>>
                       \/ \E r \in 1..hs_df.nrows :
                          /\ invoice_df.rows[i]["HS Code"] = Cell(hs_col, r)
                          /\ invoice_df.rows[i]["HS Description"] = Cell(desc_col, r)
                          /\ invoice_df.rows[i]["Unit"] =
                                IF Matching(UnitSub) = {} THEN <<>>
                                ELSE Cell(unit_col, r)

(********************************** C9 *************************************)
\* C9: the catalog row that fills a matched record holds the highest score of
\* all rows, and is the first row, in catalog order, that holds it.
C9_BestRowFirstOnTies ==
    (Matched /\ hs_codes[Len(hs_codes)] # NotFound) =>
        \E r \in 1..hs_df.nrows :
            /\ hs_codes[Len(hs_codes)] = Cell(hs_col, r)
            /\ hs_descs[Len(hs_descs)] = Cell(desc_col, r)
            /\ hs_units[Len(hs_units)] =
                  IF unit_col = None THEN <<>> ELSE Cell(unit_col, r)
            /\ match.index = r
            /\ \A j \in 1..hs_df.nrows : match.scores[j] <= match.scores[r]
            /\ \A j \in 1..(r - 1) : match.scores[j] < match.scores[r]

\* two rows tie on the highest score and the first one fills the record
C9_Witness ==
    /\ Matched
    /\ hs_df.nrows >= 2
    /\ match.scores[1] = match.scores[2]
    /\ match.scores[1] = BestScore
    /\ hs_codes[Len(hs_codes)] = Cell(hs_col, 1)

(********************************** C10 ************************************)
\* C10: the augmented query is the lowercased description followed by " k" for
\* each vocabulary keyword k, in vocabulary order, that the lowercased
\* description itself contains, once each.
C10_AugmentedQuery ==
    LastItem >= 1 =>
        LET d == Lower(FullDescriptions[LastItem])
        IN  clean_desc = d \o Suffix(d, 1)

\* "PVC Elbow 2" became "pvc elbow 2 elbow pvc": two keywords, appended in
\* vocabulary order
C10_Witness ==
    /\ LastItem >= 1
    /\ clean_desc = <<"p","v","c"," ","e","l","b","o","w"," ","2",
                      " ","e","l","b","o","w"," ","p","v","c">>

====
